---- MODULE Spec2Model ----
(***************************************************************************)
(* The qdrant vector-store adapter of langchaingo: Store, its options, its *)
(* REST client and the NilEmbedder of package vectorstores.                *)
(*                                                                         *)
(* Two generations of package qdrant are in the tree.  The current one     *)
(* nests a document under a content key and a metadata key (qdrant.go,     *)
(* restapi.go and the options file with WithContentKey); the earlier one   *)
(* stores the metadata flat with the text under a single text key.  A      *)
(* store value records the generation that built it in its field "scheme". *)
(*                                                                         *)
(* One action is one call of an operation, from its first statement to its *)
(* return (or panic).  The embedder's answers and the index's responses    *)
(* are inputs of the call, drawn from small sets.  The variable "call"     *)
(* holds the operation's arguments, "events" the embedding calls and HTTP  *)
(* exchanges it made, in order, and "result" what it returned.             *)
(***************************************************************************)
EXTENDS Integers, Sequences, FiniteSets, TLC

VARIABLES
    s,        \* the Store value the caller holds
    call,     \* the call in progress or just returned: [op, ...arguments]
    events,   \* embedding calls and HTTP exchanges of that call, in order
    result,   \* what the call returned
    pkg       \* the variables of the package: [defaultCollectionConfig]

vars == <<s, call, events, result, pkg>>

(***************************************************************************)
(* Bounds of the model.                                                    *)
(***************************************************************************)
MaxDocs == 2        \* documents in one AddDocuments call
MaxResults == 2     \* points in one raw query or scroll result list
MaxIndexKeys == 2   \* index keys given to WithIndexKeys
MaxClauses == 2     \* clauses given to NewMustEqualFilter

(***************************************************************************)
(* Go values.                                                              *)
(***************************************************************************)
\* A value of type any that is no mapping: its dynamic type and its text.
Scalar(t, v) == [t |-> t, v |-> v]
NilValue == Scalar("nil", "")
Str(v) == Scalar("string", v)

\* A map[string]any as a set of <<key, value>> pairs with distinct keys;
\* a value of type any that may be a mapping: [t, v, m].
AnyV(t, v, m) == [t |-> t, v |-> v, m |-> m]
NilAny == AnyV("nil", "", {})
StrAny(v) == AnyV("string", v, {})
MapAny(m) == AnyV("map", "", m)
NilMap == AnyV("nilmap", "", {})     \* a nil map[string]any

Keys(m) == {p[1] : p \in m}
HasKey(m, k) == k \in Keys(m)
Get(m, k) == (CHOOSE p \in m : p[1] = k)[2]
\* m[k] = v of Go: the entry for k is replaced.
Put(m, k, v) == {p \in m : p[1] # k} \cup {<<k, v>>}

\* float32: NaN, or a number in hundredths.
F(c) == [nan |-> FALSE, c |-> c]
NaN == [nan |-> TRUE, c |-> 0]
FLt(a, b) == ~a.nan /\ ~b.nan /\ a.c < b.c
FGt(a, b) == ~a.nan /\ ~b.nan /\ a.c > b.c
FGe(a, b) == ~a.nan /\ ~b.nan /\ a.c >= b.c
FEq(a, b) == ~a.nan /\ ~b.nan /\ a.c = b.c
FNe(a, b) == ~FEq(a, b)

\* A []float32 of n copies of one number.
Vector(n, x) == [len |-> n, x |-> x]

(***************************************************************************)
(* encoding/json.  Marshal writes a Go value as a JSON value; Unmarshal    *)
(* into a variable of type any reads a JSON number as a float64, null as   *)
(* the nil interface and an object as a map[string]any.                    *)
(***************************************************************************)
MarshalScalar(x) ==
    CASE x.t = "string" -> Scalar("string", x.v)
      [] x.t \in {"int", "float64"} -> Scalar("number", x.v)
      [] x.t = "bool" -> Scalar("bool", x.v)
      [] OTHER -> Scalar("null", "")

UnmarshalScalar(j) ==
    CASE j.t = "string" -> Scalar("string", j.v)
      [] j.t = "number" -> Scalar("float64", j.v)
      [] j.t = "bool" -> Scalar("bool", j.v)
      [] OTHER -> NilValue

MarshalValue(a) ==
    CASE a.t = "map" -> AnyV("object", "", {<<p[1], MarshalScalar(p[2])>> : p \in a.m})
      [] a.t \in {"nilmap", "nil"} -> AnyV("null", "", {})
      [] OTHER -> LET j == MarshalScalar(Scalar(a.t, a.v)) IN AnyV(j.t, j.v, {})

UnmarshalValue(j) ==
    CASE j.t = "object" -> AnyV("map", "", {<<p[1], UnmarshalScalar(p[2])>> : p \in j.m})
      [] j.t = "null" -> NilAny
      [] OTHER -> LET x == UnmarshalScalar(Scalar(j.t, j.v)) IN AnyV(x.t, x.v, {})

\* A payload (map[string]any) on the wire and read back.
MarshalPayload(payload) == {<<p[1], MarshalValue(p[2])>> : p \in payload}
UnmarshalPayload(obj) == {<<p[1], UnmarshalValue(p[2])>> : p \in obj}

\* json.Marshal fails on a float that is NaN.
MarshalFloatOK(f) == ~f.nan

(***************************************************************************)
(* Embedders.  "nil" is the nil interface value, NilEmbedder the type of   *)
(* package vectorstores, E1 and E2 embedders of the caller, whose answers  *)
(* are inputs of a call: [err, n] is an error, or n vectors.               *)
(***************************************************************************)
NilVectorLen == 1536

NewNilVector == Vector(NilVectorLen, 1)

ExternalEmbedders == {"E1", "E2"}
Embedders == {"NilEmbedder"} \cup ExternalEmbedders

\* The i-th vector an embedder of the caller returns.
ExternalVector(i) == Vector(4, 10 + i)

\* NilEmbedder.EmbedDocuments: one NewNilVector per text, never an error.
NilEmbedDocuments(texts) ==
    [err |-> FALSE, vectors |-> [i \in 1..Len(texts) |-> NewNilVector]]

\* NilEmbedder.EmbedQuery.
NilEmbedQuery(text) == [err |-> FALSE, vector |-> NewNilVector]

\* What embedder e answers to EmbedDocuments(texts); ans is the answer of an
\* embedder of the caller.
EmbedDocuments(e, texts, ans) ==
    IF e = "NilEmbedder" THEN NilEmbedDocuments(texts)
    ELSE [err |-> ans.err,
          vectors |-> IF ans.err THEN <<>> ELSE [i \in 1..ans.n |-> ExternalVector(i)]]

EmbedQuery(e, text, ans) ==
    IF e = "NilEmbedder" THEN NilEmbedQuery(text)
    ELSE [err |-> ans.err, vector |-> IF ans.err THEN Vector(0, 0) ELSE ExternalVector(1)]

\* The answers an embedder may give to a batch of n texts.
DocumentsAnswers(e, n) ==
    IF e \in ExternalEmbedders
    THEN {[err |-> TRUE, n |-> 0]} \cup {[err |-> FALSE, n |-> k] : k \in {n - 1, n, n + 1} \ {-1}}
    ELSE {[err |-> FALSE, n |-> n]}

QueryAnswers(e) ==
    IF e \in ExternalEmbedders
    THEN {[err |-> TRUE, n |-> 0], [err |-> FALSE, n |-> 1]}
    ELSE {[err |-> FALSE, n |-> 1]}

(***************************************************************************)
(* Store and its options.                                                  *)
(***************************************************************************)
_qdrantKeyEnvVarName == "QDRANT_API_KEY"
_qdrantURLEnvVarName == "QDRANT_BASE_URL"
_defaultContentKey == "page_content"
_defaultMetadataKey == "metadata"
_defaultTextKey == "text"

\* The package-level default collection configuration (a map[string]any).
_defaultCollectionConfig ==
    {<<"optimizers_config", "memmap_threshold:10000">>,
     <<"vectors", "size:1536,distance:Cosine">>,
     <<"on_disk_payload", "true">>}

\* Store{}: every field at its zero value.  "scheme" is the generation of
\* the package the value belongs to, not a field of the struct.
ZeroStore(scheme) ==
    [scheme |-> scheme, embedder |-> "nil", useCloud |-> FALSE, apiKey |-> "",
     baseURL |-> "", collectionName |-> "", contentKey |-> "", metadataKey |-> "",
     textKey |-> "", indexKeys |-> <<>>, collectionConfig |-> {}]

\* An option list: for each With... function whether it is given and its
\* argument.  Unset(v) is an option not given, v the field's zero value.
Unset(v) == [given |-> FALSE, v |-> v]
Given(v) == [given |-> TRUE, v |-> v]
Apply(opt, field) == IF opt.given THEN opt.v ELSE field

\* The error of applyClientOptions: ErrInvalidOptions wrapped with a message.
InvalidOptions(msg) == [err |-> "ErrInvalidOptions", task |-> "", message |-> msg]
NoError == [err |-> "nil", task |-> "", message |-> ""]

\* CheckOptions without the test of the collection name.
CheckOptionsNoName(o, env) ==
    LET apiKey == IF o.apiKey = "" THEN env[_qdrantKeyEnvVarName] ELSE o.apiKey
        baseURL == IF o.baseURL = "" THEN env[_qdrantURLEnvVarName] ELSE o.baseURL
    IN  IF o.embedder = "nil"
        THEN [err |-> InvalidOptions("missing embedder"), store |-> ZeroStore(o.scheme)]
        ELSE IF o.apiKey = "" /\ o.useCloud /\ apiKey = ""
        THEN [err |-> InvalidOptions("missing api key"), store |-> ZeroStore(o.scheme)]
        ELSE IF baseURL = ""
        THEN [err |-> InvalidOptions("missing api url"), store |-> ZeroStore(o.scheme)]
        ELSE [err |-> NoError,
              store |-> [o EXCEPT !.apiKey = apiKey, !.baseURL = baseURL]]

\* The checks of applyClientOptions on the store o built from the options,
\* the same in both generations: [err, store].
CheckOptions(o, env) ==
    LET apiKey == IF o.apiKey = "" THEN env[_qdrantKeyEnvVarName] ELSE o.apiKey
        baseURL == IF o.baseURL = "" THEN env[_qdrantURLEnvVarName] ELSE o.baseURL
    IN  IF o.embedder = "nil"
        THEN [err |-> InvalidOptions("missing embedder"), store |-> ZeroStore(o.scheme)]
        ELSE IF o.apiKey = "" /\ o.useCloud /\ apiKey = ""
        THEN [err |-> InvalidOptions("missing api key"), store |-> ZeroStore(o.scheme)]
        ELSE IF baseURL = ""
        THEN [err |-> InvalidOptions("missing api url"), store |-> ZeroStore(o.scheme)]
        ELSE IF o.collectionName = ""
        THEN [err |-> InvalidOptions("missing collection name"), store |-> ZeroStore(o.scheme)]
        ELSE [err |-> NoError,
              store |-> [o EXCEPT !.apiKey = apiKey, !.baseURL = baseURL]]

\* applyClientOptions of the current generation.
applyClientOptions(opts, env) ==
    LET d == [ZeroStore("nested") EXCEPT !.contentKey = _defaultContentKey,
                                         !.metadataKey = _defaultMetadataKey,
                                         !.collectionConfig = _defaultCollectionConfig]
        o == [d EXCEPT !.embedder = Apply(opts.embedder, @),
                       !.apiKey = Apply(opts.apiKey, @),
                       !.baseURL = Apply(opts.baseURL, @),
                       !.useCloud = Apply(opts.useCloud, @),
                       !.collectionName = Apply(opts.collectionName, @),
                       !.contentKey = Apply(opts.contentKey, @),
                       !.metadataKey = Apply(opts.metadataKey, @),
                       !.indexKeys = Apply(opts.indexKeys, @),
                       !.collectionConfig = Apply(opts.collectionConfig, @)]
    IN  CheckOptions(o, env)

\* applyClientOptions of the earlier generation.
applyClientOptionsFlat(opts, env) ==
    LET d == [ZeroStore("flat") EXCEPT !.textKey = _defaultTextKey]
        o == [d EXCEPT !.embedder = Apply(opts.embedder, @),
                       !.apiKey = Apply(opts.apiKey, @),
                       !.baseURL = Apply(opts.baseURL, @),
                       !.useCloud = Apply(opts.useCloud, @),
                       !.collectionName = Apply(opts.collectionName, @),
                       !.textKey = Apply(opts.textKey, @)]
    IN  CheckOptions(o, env)

(***************************************************************************)
(* Errors, HTTP responses and the log of a call.                           *)
(***************************************************************************)
\* An error value: a sentinel of the package (its variable's name), an
\* APIError with its Task and Message, or an error of a collaborator.
Sentinel(name) == [err |-> name, task |-> "", message |-> ""]
APIError(task, message) == [err |-> "APIError", task |-> task, message |-> message]

StatusOK == 200

\* What the index answers to one request: no answer (the transport fails),
\* or a status and a body.  The body is its text, whether reading it to the
\* end succeeds, whether it decodes as the response type, and the decoded
\* "result" (whether it is there at all, its points as they are on the wire,
\* and the next page offset, "" for none).
Response(neterr, status, readable, text, decodes, points, next) ==
    [neterr |-> neterr, status |-> status, readable |-> readable, text |-> text,
     decodes |-> decodes, hasResult |-> TRUE, result |-> points, next |-> next]
NoResponse == Response(FALSE, 0, TRUE, "", FALSE, <<>>, "")

\* The responses to a request whose 200 answer carries nothing to decode.
PlainResponses ==
    { Response(TRUE, 0, TRUE, "", FALSE, <<>>, ""),
      Response(FALSE, StatusOK, TRUE, "ok", TRUE, <<>>, ""),
      Response(FALSE, 201, TRUE, "created", TRUE, <<>>, ""),
      Response(FALSE, 500, TRUE, "internal error", FALSE, <<>>, ""),
      Response(FALSE, 500, FALSE, "intern", FALSE, <<>>, "") }

\* One entry of the log of a call: an embedding call or an HTTP exchange.
EmbedEvent(e, method, texts) ==
    [kind |-> "embed", who |-> e, method |-> method, texts |-> texts,
     endpoint |-> "", apiKey |-> "", body |-> <<>>, resp |-> NoResponse, ret |-> NoError]
RequestEvent(task, method, endpoint, apiKey, body, resp, ret) ==
    [kind |-> "request", who |-> task, method |-> method, texts |-> <<>>,
     endpoint |-> endpoint, apiKey |-> apiKey, body |-> body, resp |-> resp, ret |-> ret]

\* The two kinds of entries of a call's log.
IsEmbed(e) == e.kind = "embed"
IsRequest(e) == e.kind = "request"

\* Whether a call that got as far as log ev sent a request.
Sends(ev) == \E i \in 1..Len(ev) : ev[i].kind = "request"

\* What a function returns: a panic ("" is none), its error, its documents,
\* the next page offset (scroll), and the log of what it did.
Outcome(panic, err, docs, next, ev) ==
    [panic |-> panic, err |-> err, docs |-> docs, next |-> next, ev |-> ev]
Returns(err, ev) == Outcome("", err, <<>>, "", ev)
Panics(what, ev) == Outcome(what, NoError, <<>>, "", ev)

\* newAPIError with the task and the message swapped.
newAPIErrorSwapped(task, resp) ==
    IF ~resp.readable
    THEN APIError("reading body of error message", "read error")
    ELSE APIError(resp.text, task)

\* newAPIError: the task and the body's text, unless reading the body fails.
newAPIError(task, resp) ==
    IF ~resp.readable
    THEN APIError("reading body of error message", "read error")
    ELSE APIError(task, resp.text)

\* getEndpoint of the current generation.
getEndpoint(baseURL, collection, path) ==
    baseURL \o "/collections/" \o collection \o path

\* getEndpoint of the earlier generation (the path's leading "/" is trimmed
\* and one is always written); every path given to it starts with "/".
getEndpointFlat(baseURL, collection, path) ==
    baseURL \o "/collections/" \o collection \o path

\* doRequest: the payload is marshalled, the request sent with the API key.
\* [err, status, sent]: sent is whether a request went out at all.
doRequest(marshals, resp) ==
    IF ~marshals THEN [err |-> Sentinel("json.UnsupportedValueError"), status |-> 0, sent |-> FALSE]
    ELSE IF resp.neterr THEN [err |-> Sentinel("transport error"), status |-> 0, sent |-> TRUE]
    ELSE [err |-> NoError, status |-> resp.status, sent |-> TRUE]

\* PlainExchange that sends the request a second time when the transport fails.
PlainExchangeRetry(task, method, endpoint, apiKey, body, resp) ==
    LET r == doRequest(TRUE, resp)
        ret == IF r.err # NoError THEN r.err
               ELSE IF r.status = StatusOK THEN NoError
               ELSE newAPIError(task, resp)
        e == RequestEvent(task, method, endpoint, apiKey, body, resp, ret)
    IN  Returns(ret, IF resp.neterr THEN <<e, e>> ELSE <<e>>)

\* The common shape of restUpsert, restDeletePoints, restNewCollection and
\* restIndexMetadataKey after the payload is built: one exchange, nil on status
\* 200, an APIError on any other status.
PlainExchange(task, method, endpoint, apiKey, body, resp) ==
    LET r == doRequest(TRUE, resp)
        ret == IF r.err # NoError THEN r.err
               ELSE IF r.status = StatusOK THEN NoError
               ELSE newAPIError(task, resp)
    IN  Returns(ret, <<RequestEvent(task, method, endpoint, apiKey, body, resp, ret)>>)

(***************************************************************************)
(* Documents and points.                                                   *)
(***************************************************************************)
\* schema.Document; Metadata is a map value or the nil map.
Document(content, metadata, score) ==
    [PageContent |-> content, Metadata |-> metadata, Score |-> score]

\* The point of restapi.go: Vector, Payload (a map[string]any) and ID.
Point(vector, payload, id) == [Vector |-> vector, Payload |-> payload, ID |-> id]

\* uuid.New().String(): the k-th identifier generated during a call.
UUIDs == <<"uuid-1", "uuid-2", "uuid-3", "uuid-4", "uuid-5">>
NewUUID(k) == UUIDs[k]

\* metadatas[i] != nil && metadatas[i]["__point_id"] != nil
HasPointID(md) ==
    md.t = "map" /\ HasKey(md.m, "__point_id") /\ Get(md.m, "__point_id").t # "nil"

\* The ID of the i-th point of restUpsert: the document's "__point_id" if it
\* has one, else a new UUID.  (The .(string) assertion is UpsertPanic's.)
PointID(md, i) == IF HasPointID(md) THEN Get(md.m, "__point_id").v ELSE NewUUID(i)

\* The payload literal map[string]any{s.contentKey: text, s.metadataKey: md}:
\* with equal keys the second entry replaces the first.
NestedPayload(st, text, md) ==
    Put({<<st.contentKey, StrAny(text)>>}, st.metadataKey, md)

\* What stops the loop of restUpsert at its i-th round, "" if nothing does:
\* metadatas[i] or texts[i] out of range, or a "__point_id" that is no string.
UpsertPanic(texts, metadatas, i) ==
    IF i > Len(metadatas) THEN "index out of range"
    ELSE IF HasPointID(metadatas[i]) /\ Get(metadatas[i].m, "__point_id").t # "string"
    THEN "interface conversion"
    ELSE IF i > Len(texts) THEN "index out of range"
    ELSE ""

\* The first round of 1..n that panics, 0 if none does.
FirstPanic(texts, metadatas, n) ==
    LET bad == {i \in 1..n : UpsertPanic(texts, metadatas, i) # ""}
    IN  IF bad = {} THEN 0 ELSE CHOOSE i \in bad : \A j \in bad : i <= j

\* restUpsert of the current generation: one point per vector.
restUpsert(st, texts, vectors, metadatas, collection, resp) ==
    LET n == Len(vectors)
        p == FirstPanic(texts, metadatas, n)
        v == [i \in 1..n |->
                Point(vectors[i], NestedPayload(st, texts[i], metadatas[i]),
                      PointID(metadatas[i], i))]
    IN  IF p # 0 THEN Panics(UpsertPanic(texts, metadatas, p), <<>>)
        ELSE PlainExchange("upserting vectors", "PUT",
                           getEndpoint(st.baseURL, collection, "/points"),
                           st.apiKey, v, resp)

\* restUpsert of the earlier generation: the payload is the metadata map
\* AddDocuments built, the ID always a new UUID.
restUpsertFlat(st, vectors, metadatas, collection, resp) ==
    LET n == Len(vectors)
        v == [i \in 1..n |-> Point(vectors[i], metadatas[i].m, NewUUID(i))]
    IN  IF n > Len(metadatas) THEN Panics("index out of range", <<>>)
        ELSE PlainExchange("upserting vectors", "PUT",
                           getEndpointFlat(st.baseURL, collection, "/points"),
                           st.apiKey, v, resp)

\* restDeletePoints.
restDeletePoints(st, collection, filter, resp) ==
    PlainExchange("deleting points", "POST",
                  getEndpoint(st.baseURL, collection, "/points/delete"),
                  st.apiKey, [filter |-> filter], resp)

\* restNewCollection: the store's collection configuration with the name.
restNewCollection(st, collection, resp) ==
    PlainExchange("creating collection", "PUT",
                  getEndpoint(st.baseURL, collection, ""),
                  st.apiKey, Put(st.collectionConfig, "name", collection), resp)

\* restIndexMetadataKey.
restIndexMetadataKey(st, collection, key, resp) ==
    PlainExchange("indexing metadata key", "PUT",
                  getEndpoint(st.baseURL, collection, "/index"),
                  st.apiKey, [field_name |-> key, field_schema |-> "keyword"], resp)

(***************************************************************************)
(* Query and scroll.                                                       *)
(***************************************************************************)
\* A point of a response on the wire: its payload is a JSON object.
WirePoint(id, score, payload) == [ID |-> id, Score |-> score, Payload |-> payload]

\* spoint.Payload[key] after decoding: the nil interface for a missing key.
PayloadValue(sp, key) ==
    LET payload == UnmarshalPayload(sp.Payload)
    IN  IF HasKey(payload, key) THEN Get(payload, key) ELSE NilAny

\* How decoding the point sp stops the loop of restQuery and restScrollPoints:
\* the content is no string (ErrMissingTextKey), else the metadata is no
\* map[string]any (the unchecked assertion panics); "" if it decodes.
PointFault(st, sp) ==
    IF PayloadValue(sp, st.contentKey).t # "string" THEN "ErrMissingTextKey"
    ELSE IF PayloadValue(sp, st.metadataKey).t # "map" THEN "interface conversion"
    ELSE ""

\* The document restQuery builds from a point that decodes.
PointDocument(st, sp) ==
    Document(PayloadValue(sp, st.contentKey).v, PayloadValue(sp, st.metadataKey), sp.Score)

\* Keeps with the comparison strict: a point at the threshold is dropped.
KeepsAbove(scoreThreshold, score) ==
    \/ FNe(scoreThreshold, F(0)) /\ FGt(score, scoreThreshold)
    \/ FEq(scoreThreshold, F(0))

\* The condition under which restQuery appends the document of a point.
Keeps(scoreThreshold, score) ==
    \/ FNe(scoreThreshold, F(0)) /\ FGe(score, scoreThreshold)
    \/ FEq(scoreThreshold, F(0))

\* The first point of the list that does not decode, 0 if all do.
FirstFault(st, points) ==
    LET bad == {i \in 1..Len(points) : PointFault(st, points[i]) # ""}
    IN  IF bad = {} THEN 0 ELSE CHOOSE i \in bad : \A j \in bad : i <= j

\* The loop of restQuery over the raw result list.
QueryDocuments(st, points, scoreThreshold) ==
    LET all == [i \in 1..Len(points) |-> PointDocument(st, points[i])]
        keptDoc(d) == Keeps(scoreThreshold, d.Score)
    IN  SelectSeq(all, keptDoc)

\* QueryResult without the test for an empty result list.
QueryResultNoEmptyTest(st, resp, scoreThreshold) ==
    LET f == FirstFault(st, resp.result)
    IN  IF ~resp.decodes THEN Returns(Sentinel("json decode error"), <<>>)
        ELSE IF f # 0 /\ PointFault(st, resp.result[f]) = "ErrMissingTextKey"
        THEN Returns(Sentinel("ErrMissingTextKey"), <<>>)
        ELSE IF f # 0 THEN Panics(PointFault(st, resp.result[f]), <<>>)
        ELSE Outcome("", NoError, QueryDocuments(st, resp.result, scoreThreshold), "", <<>>)

\* restQuery once the status is 200: the body is decoded, an empty result
\* list is ErrEmptyResponse, and the points are decoded and filtered in order.
QueryResult(st, resp, scoreThreshold) ==
    LET f == FirstFault(st, resp.result)
    IN  IF ~resp.decodes THEN Returns(Sentinel("json decode error"), <<>>)
        ELSE IF Len(resp.result) = 0 THEN Returns(Sentinel("ErrEmptyResponse"), <<>>)
        ELSE IF f # 0 /\ PointFault(st, resp.result[f]) = "ErrMissingTextKey"
        THEN Returns(Sentinel("ErrMissingTextKey"), <<>>)
        ELSE IF f # 0 THEN Panics(PointFault(st, resp.result[f]), <<>>)
        ELSE Outcome("", NoError, QueryDocuments(st, resp.result, scoreThreshold), "", <<>>)

\* restQuery of the current generation.
restQuery(st, vector, numVectors, collection, scoreThreshold, filter, resp) ==
    LET payload == [WithVector |-> TRUE, WithPayload |-> TRUE, Vector |-> vector,
                    Limit |-> numVectors, Filter |-> filter,
                    ScoreThreshold |-> scoreThreshold]
        endpoint == getEndpoint(st.baseURL, collection, "/points/search")
        r == doRequest(MarshalFloatOK(scoreThreshold), resp)
        out == IF r.err # NoError THEN Returns(r.err, <<>>)
               ELSE IF r.status # StatusOK
               THEN Returns(newAPIError("querying index", resp), <<>>)
               ELSE QueryResult(st, resp, scoreThreshold)
    IN  [out EXCEPT !.ev = IF r.sent
                           THEN <<RequestEvent("querying index", "POST", endpoint,
                                               st.apiKey, payload, resp, out.err)>>
                           ELSE <<>>]

\* delete(m, k) of Go.
Delete(m, k) == {p \in m : p[1] # k}

\* restQuery of the earlier generation: the content is under the text key and
\* the rest of the payload is the metadata.
restQueryFlat(st, vector, numVectors, collection, scoreThreshold, filter, resp) ==
    LET payload == [WithVector |-> TRUE, WithPayload |-> TRUE, Vector |-> vector,
                    Limit |-> numVectors, Filter |-> filter,
                    ScoreThreshold |-> scoreThreshold]
        endpoint == getEndpointFlat(st.baseURL, collection, "/points/search")
        r == doRequest(MarshalFloatOK(scoreThreshold), resp)
        missing == \E i \in 1..Len(resp.result) :
                      PayloadValue(resp.result[i], st.textKey).t # "string"
        rest(sp) == Delete(UnmarshalPayload(sp.Payload), st.textKey)
        all == [i \in 1..Len(resp.result) |->
                  Document(PayloadValue(resp.result[i], st.textKey).v,
                           MapAny({<<p[1], Scalar(p[2].t, p[2].v)>> : p \in rest(resp.result[i])}),
                           resp.result[i].Score)]
        keptDoc(d) == Keeps(scoreThreshold, d.Score)
        out == IF r.err # NoError THEN Returns(r.err, <<>>)
               ELSE IF r.status # StatusOK
               THEN Returns(newAPIError("querying index", resp), <<>>)
               ELSE IF ~resp.decodes THEN Returns(Sentinel("json decode error"), <<>>)
               ELSE IF Len(resp.result) = 0 THEN Returns(Sentinel("ErrEmptyResponse"), <<>>)
               ELSE IF missing THEN Returns(Sentinel("ErrMissingTextKey"), <<>>)
               ELSE Outcome("", NoError, SelectSeq(all, keptDoc), "", <<>>)
    IN  [out EXCEPT !.ev = IF r.sent
                           THEN <<RequestEvent("querying index", "POST", endpoint,
                                               st.apiKey, payload, resp, out.err)>>
                           ELSE <<>>]

\* restScrollPoints: req is the ScrollPointsRequest.  response.Result is a
\* pointer, nil when the body has no "result".
restScrollPoints(st, collection, req, resp) ==
    LET endpoint == getEndpoint(st.baseURL, collection, "/points/scroll")
        r == doRequest(TRUE, resp)
        f == FirstFault(st, resp.result)
        docs == [i \in 1..Len(resp.result) |->
                   Document(PayloadValue(resp.result[i], st.contentKey).v,
                            PayloadValue(resp.result[i], st.metadataKey), F(0))]
        out == IF r.err # NoError THEN Returns(r.err, <<>>)
               ELSE IF r.status # StatusOK
               THEN Returns(newAPIError("scrolling points", resp), <<>>)
               ELSE IF ~resp.decodes THEN Returns(Sentinel("json decode error"), <<>>)
               ELSE IF ~resp.hasResult THEN Panics("nil pointer dereference", <<>>)
               ELSE IF f # 0 /\ PointFault(st, resp.result[f]) = "ErrMissingTextKey"
               THEN Returns(Sentinel("ErrMissingTextKey"), <<>>)
               ELSE IF f # 0 THEN Panics(PointFault(st, resp.result[f]), <<>>)
               ELSE Outcome("", NoError, docs, resp.next, <<>>)
    IN  [out EXCEPT !.ev = <<RequestEvent("scrolling points", "POST", endpoint,
                                          st.apiKey, req, resp, out.err)>>]

(***************************************************************************)
(* The Store's operations.                                                 *)
(***************************************************************************)
\* vectorstores.Options after getOptions: the per-call embedder ("nil" when
\* no WithEmbedder is given), the filters and the score threshold.
Options(embedder, filters, scoreThreshold) ==
    [Embedder |-> embedder, Filters |-> filters, ScoreThreshold |-> scoreThreshold]

\* getEmbedder.
getEmbedder(st, options) ==
    IF options.Embedder # "nil" THEN options.Embedder ELSE st.embedder

\* getScoreThreshold: [threshold, err].
getScoreThreshold(opts) ==
    IF FLt(opts.ScoreThreshold, F(0)) \/ FGt(opts.ScoreThreshold, F(100))
    THEN [threshold |-> F(0), err |-> Sentinel("ErrInvalidScoreThreshold")]
    ELSE [threshold |-> opts.ScoreThreshold, err |-> NoError]

\* getFilters.
getFilters(opts) == opts.Filters

\* The texts of AddDocuments.
Texts(docs) == [i \in 1..Len(docs) |-> docs[i].PageContent]

\* AddDocuments of the current generation.  ans is what the embedder
\* answers if it is one of the caller's, resp what the index answers.
AddDocuments(st, docs, opts, ans, resp) ==
    LET embedder == getEmbedder(st, opts)
        texts == Texts(docs)
        e == EmbedDocuments(embedder, texts, ans)
        called == <<EmbedEvent(embedder, "EmbedDocuments", texts)>>
        isNilEmbedder == st.embedder = "NilEmbedder"
        metadatas == [i \in 1..Len(docs) |-> docs[i].Metadata]
        up == restUpsert(st, texts, e.vectors, metadatas, st.collectionName, resp)
    IN  IF embedder = "nil" THEN Panics("nil pointer dereference", <<>>)
        ELSE IF e.err THEN Returns(Sentinel("embedder error"), called)
        ELSE IF ~isNilEmbedder /\ Len(e.vectors) # Len(docs)
        THEN Returns(Sentinel("ErrEmbedderWrongNumberVectors"), called)
        ELSE [up EXCEPT !.ev = called \o @]

\* AddDocuments of the earlier generation: the options are not read, the
\* metadata is copied and the text put in it under the text key.
AddDocumentsFlat(st, docs, opts, ans, resp) ==
    LET texts == Texts(docs)
        e == EmbedDocuments(st.embedder, texts, ans)
        called == <<EmbedEvent(st.embedder, "EmbedDocuments", texts)>>
        metadatas == [i \in 1..Len(docs) |->
                        MapAny(Put(docs[i].Metadata.m, st.textKey, Str(texts[i])))]
        up == restUpsertFlat(st, e.vectors, metadatas, st.collectionName, resp)
    IN  IF st.embedder = "nil" THEN Panics("nil pointer dereference", <<>>)
        ELSE IF e.err THEN Returns(Sentinel("embedder error"), called)
        ELSE IF Len(e.vectors) # Len(docs)
        THEN Returns(Sentinel("ErrEmbedderWrongNumberVectors"), called)
        ELSE [up EXCEPT !.ev = called \o @]

\* SimilaritySearch of the current generation.
SimilaritySearch(st, query, numDocuments, opts, ans, resp) ==
    LET embedder == getEmbedder(st, opts)
        filters == getFilters(opts)
        th == getScoreThreshold(opts)
        e == EmbedQuery(embedder, query, ans)
        called == <<EmbedEvent(embedder, "EmbedQuery", <<query>>)>>
        q == restQuery(st, e.vector, numDocuments, st.collectionName, th.threshold,
                       filters, resp)
    IN  IF th.err # NoError THEN Returns(th.err, <<>>)
        ELSE IF embedder = "nil" THEN Panics("nil pointer dereference", <<>>)
        ELSE IF e.err THEN Returns(Sentinel("embedder error"), called)
        ELSE [q EXCEPT !.ev = called \o @]

\* SimilaritySearch of the earlier generation: always the store's embedder.
SimilaritySearchFlat(st, query, numDocuments, opts, ans, resp) ==
    LET filters == getFilters(opts)
        th == getScoreThreshold(opts)
        e == EmbedQuery(st.embedder, query, ans)
        called == <<EmbedEvent(st.embedder, "EmbedQuery", <<query>>)>>
        q == restQueryFlat(st, e.vector, numDocuments, st.collectionName, th.threshold,
                           filters, resp)
    IN  IF th.err # NoError THEN Returns(th.err, <<>>)
        ELSE IF st.embedder = "nil" THEN Panics("nil pointer dereference", <<>>)
        ELSE IF e.err THEN Returns(Sentinel("embedder error"), called)
        ELSE [q EXCEPT !.ev = called \o @]

\* IndexRequests that stops at the first request that returns an error.
RECURSIVE IndexRequestsUntilError(_, _, _)
IndexRequestsUntilError(st, keys, resps) ==
    IF keys = <<>> THEN <<>>
    ELSE LET r == restIndexMetadataKey(st, st.collectionName, Head(keys), Head(resps))
         IN  IF r.err # NoError THEN r.ev
             ELSE r.ev \o IndexRequestsUntilError(st, Tail(keys), Tail(resps))

\* The log of the provisioning requests of New: the collection, then one
\* request per index key, whatever each returns (the errors are dropped).
RECURSIVE IndexRequests(_, _, _)
IndexRequests(st, keys, resps) ==
    IF keys = <<>> THEN <<>>
    ELSE restIndexMetadataKey(st, st.collectionName, Head(keys), Head(resps)).ev
         \o IndexRequests(st, Tail(keys), Tail(resps))

\* New of the current generation: [store, err, ev].  resps are the index's
\* answers to the requests New sends, in order.
New(opts, env, resps) ==
    LET a == applyClientOptions(opts, env)
    IN  IF a.err # NoError
        THEN [store |-> ZeroStore("nested"), err |-> a.err, ev |-> <<>>]
        ELSE [store |-> a.store, err |-> NoError,
              ev |-> restNewCollection(a.store, a.store.collectionName, Head(resps)).ev
                     \o IndexRequests(a.store, a.store.indexKeys, Tail(resps))]

\* New of the earlier generation: no request is sent.
NewFlat(opts, env) ==
    LET a == applyClientOptionsFlat(opts, env)
    IN  IF a.err # NoError
        THEN [store |-> ZeroStore("flat"), err |-> a.err, ev |-> <<>>]
        ELSE [store |-> a.store, err |-> NoError, ev |-> <<>>]

\* Close.
Close(st) == Returns(NoError, <<>>)

\* FilterMatch: a key and the values it may take.
FilterMatch(key, values) == [Key |-> key, Values |-> values]

\* fmt.Sprintf("%s.%s", a, b)
Sprintf(a, b) == a \o "." \o b

\* NewMustEqualFilter with the clause keys left as the caller gave them.
NewMustEqualFilterNoPrefix(st, filters) ==
    [must |-> [i \in 1..Len(filters) |->
                 [key |-> filters[i].Key, match |-> [any |-> filters[i].Values]]]]

\* Store.NewMustEqualFilter of the current generation: one clause of "must"
\* per FilterMatch, its key under the store's metadata key.
NewMustEqualFilter(st, filters) ==
    [must |-> [i \in 1..Len(filters) |->
                 [key |-> Sprintf(st.metadataKey, filters[i].Key),
                  match |-> [any |-> filters[i].Values]]]]

\* NewMustEqualFilter of the earlier generation: a function of the package
\* that takes one key, used as it is, and its values.
NewMustEqualFilterFlat(key, values) ==
    [must |-> <<[key |-> key, match |-> [any |-> values]]>>]

(***************************************************************************)
(* The inputs of the calls.                                                *)
(***************************************************************************)
\* Sequences over S of length at most n.
SeqsUpTo(S, n) == UNION {[1..k -> S] : k \in 0..n}

\* The documents a caller adds: metadata with a string and an int, the nil
\* map, the empty map, a "__point_id" that is a string and one that is an int.
Docs ==
    { Document("Tokyo", MapAny({<<"country", Str("Japan")>>,
                                <<"population", Scalar("int", "38")>>}), F(0)),
      Document("Paris", NilMap, F(0)),
      Document("London", MapAny({}), F(0)),
      Document("Lima", MapAny({<<"__point_id", Str("p-1")>>,
                               <<"country", Str("Peru")>>}), F(0)),
      Document("Oslo", MapAny({<<"__point_id", Scalar("int", "42")>>}), F(0)) }

DocLists == SeqsUpTo(Docs, MaxDocs)

\* The embedder of vectorstores.WithEmbedder, "nil" when the option is not given.
PerCallEmbedders == {"nil", "NilEmbedder", "E2"}

\* The values of vectorstores.WithScoreThreshold (hundredths), 0 when not given.
Thresholds == {F(-10), F(0), F(80), F(100), F(110), NaN}

Filters == {"nil", "country=Brazil"}

\* The clauses a caller gives to NewMustEqualFilter.
FilterMatches ==
    { FilterMatch("country", <<"Brazil">>),
      FilterMatch("population", <<"38", "11">>),
      FilterMatch("area", <<>>) }

FilterLists == SeqsUpTo(FilterMatches, MaxClauses)

\* The options of New.
IndexKeyPool == <<"country", "area", "population", "continent">>
CustomConfig == {<<"vectors", "size:768,distance:Dot">>}

Profiles ==
    {[contentKey |-> Unset(""), metadataKey |-> Unset(""), indexKeys |-> Unset(<<>>),
      collectionConfig |-> Unset({})]}
    \cup {[contentKey |-> Given("content"), metadataKey |-> Given("meta"),
           indexKeys |-> Given(SubSeq(IndexKeyPool, 1, k)),
           collectionConfig |-> Given(CustomConfig)] : k \in 1..MaxIndexKeys}

NewOptions ==
    {[embedder |-> e, apiKey |-> k, baseURL |-> u, useCloud |-> c, collectionName |-> n,
      contentKey |-> p.contentKey, metadataKey |-> p.metadataKey,
      indexKeys |-> p.indexKeys, collectionConfig |-> p.collectionConfig,
      textKey |-> Unset("")] :
        e \in {Unset("nil"), Given("NilEmbedder"), Given("E1")},
        k \in {Unset(""), Given("key")},
        u \in {Unset(""), Given("http://qdrant")},
        c \in {Unset(FALSE), Given(TRUE)},
        n \in {Unset(""), Given("cities")},
        p \in Profiles}

NewOptionsFlat ==
    {[embedder |-> e, apiKey |-> k, baseURL |-> u, useCloud |-> c, collectionName |-> n,
      contentKey |-> Unset(""), metadataKey |-> Unset(""),
      indexKeys |-> Unset(<<>>), collectionConfig |-> Unset({}),
      textKey |-> x] :
        e \in {Unset("nil"), Given("NilEmbedder"), Given("E1")},
        k \in {Unset(""), Given("key")},
        u \in {Unset(""), Given("http://qdrant")},
        c \in {Unset(FALSE), Given(TRUE)},
        n \in {Unset(""), Given("cities")},
        x \in {Unset(""), Given("content")}}

\* The environment: os.Getenv gives "" for a variable that is not set.
Environments ==
    {(_qdrantKeyEnvVarName :> k) @@ (_qdrantURLEnvVarName :> u) :
        k \in {"", "key"}, u \in {"", "http://qdrant"}}

\* AddDocuments of the one document d when the embedder answers with one
\* vector and the index with 200.
WriteOf(st, d) ==
    LET ok == Response(FALSE, StatusOK, TRUE, "ok", TRUE, <<>>, "")
        ans == [err |-> FALSE, n |-> 1]
    IN  IF st.scheme = "nested"
        THEN AddDocuments(st, <<d>>, Options("E2", "nil", F(0)), ans, ok)
        ELSE AddDocumentsFlat([st EXCEPT !.embedder = "E2"], <<d>>,
                              Options("nil", "nil", F(0)), ans, ok)

\* Whether that call sends its upsert request (it panics before, if not).
Writes(st, d) == Sends(WriteOf(st, d).ev)

\* The point the adapter writes for d, as it is on the wire.
WrittenPoint(st, d) ==
    LET p == WriteOf(st, d).ev[2].body[1]
    IN  [p EXCEPT !.Payload = MarshalPayload(@)]

\* The index returns a written point unchanged, with a score.
Echo(st, d, score) ==
    WirePoint(WrittenPoint(st, d).ID, score, WrittenPoint(st, d).Payload)

DocOf(content) == CHOOSE d \in Docs : d.PageContent = content

\* The content key of a store, whatever its generation.
TextKeyOf(st) == IF st.scheme = "nested" THEN st.contentKey ELSE st.textKey

\* The points a response may list: points the adapter wrote, a point with no
\* content and a point whose content is a number.
RawPoints(st) ==
    { Echo(st, DocOf("Lima"), F(50)), Echo(st, DocOf("Lima"), F(80)),
      Echo(st, DocOf("London"), F(90)), Echo(st, DocOf("Paris"), F(90)),
      WirePoint("id-7", F(50), {<<st.metadataKey, AnyV("object", "", {})>>}),
      WirePoint("id-8", F(90), {<<TextKeyOf(st), AnyV("number", "7", {})>>,
                                <<st.metadataKey, AnyV("object", "", {})>>}) }

ResultLists(st) == SeqsUpTo(RawPoints(st), MaxResults)

\* What the index may answer to a query.
QueryResponses(st) ==
    (PlainResponses \ {Response(FALSE, StatusOK, TRUE, "ok", TRUE, <<>>, "")})
    \cup {Response(FALSE, StatusOK, TRUE, "{", FALSE, <<>>, "")}
    \cup {Response(FALSE, StatusOK, TRUE, "{result}", TRUE, l, "") : l \in ResultLists(st)}

\* What the index may answer to a scroll.
ScrollResponses(st) ==
    (PlainResponses \ {Response(FALSE, StatusOK, TRUE, "ok", TRUE, <<>>, "")})
    \cup {[Response(FALSE, StatusOK, TRUE, "{}", TRUE, <<>>, "") EXCEPT !.hasResult = FALSE]}
    \cup {Response(FALSE, StatusOK, TRUE, "{result}", TRUE, l, n) :
            l \in ResultLists(st), n \in {"", "id-9"}}

(***************************************************************************)
(* The state machine: a caller that holds one Store value and makes one    *)
(* call at a time.                                                         *)
(***************************************************************************)
Idle == [op |-> "idle"]
NoResult == [panic |-> "", err |-> NoError, docs |-> <<>>, next |-> ""]
ResultOf(out) == [panic |-> out.panic, err |-> out.err, docs |-> out.docs, next |-> out.next]

\* The program is linked with one generation of the package; before New the
\* caller holds the zero Store.
\* The variables of the package as the program starts.
InitialPackage == [defaultCollectionConfig |-> _defaultCollectionConfig]

Init ==
    /\ s \in {ZeroStore("nested"), ZeroStore("flat")}
    /\ call = Idle
    /\ events = <<>>
    /\ result = NoResult
    /\ pkg = InitialPackage

\* store, err := qdrant.New(ctx, opts...): the caller builds its store
\* once; a failed New leaves it with the zero Store and it may try again.
DoNew ==
    /\ call = Idle
    /\ UNCHANGED pkg
    /\ s = ZeroStore("nested")
    /\ \E opts \in NewOptions, env \in Environments :
         LET n == IF applyClientOptions(opts, env).err = NoError
                  THEN 1 + Len(applyClientOptions(opts, env).store.indexKeys) ELSE 0
         IN  \E resps \in [1..n -> PlainResponses] :
               LET out == New(opts, env, resps)
               IN  /\ s' = out.store
                   /\ call' = [op |-> "New", opts |-> opts, env |-> env, resps |-> resps]
                   /\ events' = out.ev
                   /\ result' = [NoResult EXCEPT !.err = out.err]

DoNewFlat ==
    /\ call = Idle
    /\ UNCHANGED pkg
    /\ s = ZeroStore("flat")
    /\ \E opts \in NewOptionsFlat, env \in Environments :
         LET out == NewFlat(opts, env)
         IN  /\ s' = out.store
             /\ call' = [op |-> "New", opts |-> opts, env |-> env, resps |-> <<>>]
             /\ events' = out.ev
             /\ result' = [NoResult EXCEPT !.err = out.err]

\* err := store.AddDocuments(ctx, docs, vectorstores.WithEmbedder(e))
DoAddDocuments ==
    /\ call = Idle
    /\ UNCHANGED pkg
    /\ s.scheme = "nested"
    /\ \E docs \in DocLists, e \in PerCallEmbedders :
         LET opts == Options(e, "nil", F(0))
         IN  \E ans \in DocumentsAnswers(getEmbedder(s, opts), Len(docs)) :
               \E resp \in IF Sends(AddDocuments(s, docs, opts, ans, NoResponse).ev)
                           THEN PlainResponses ELSE {NoResponse} :
                 LET out == AddDocuments(s, docs, opts, ans, resp)
                 IN  /\ call' = [op |-> "AddDocuments", docs |-> docs, opts |-> opts,
                                 ans |-> ans, resp |-> resp]
                     /\ events' = out.ev
                     /\ result' = ResultOf(out)
                     /\ UNCHANGED s

DoAddDocumentsFlat ==
    /\ call = Idle
    /\ UNCHANGED pkg
    /\ s.scheme = "flat"
    /\ \E docs \in DocLists, e \in PerCallEmbedders :
         LET opts == Options(e, "nil", F(0))
         IN  \E ans \in DocumentsAnswers(s.embedder, Len(docs)) :
               \E resp \in IF Sends(AddDocumentsFlat(s, docs, opts, ans, NoResponse).ev)
                           THEN PlainResponses ELSE {NoResponse} :
                 LET out == AddDocumentsFlat(s, docs, opts, ans, resp)
                 IN  /\ call' = [op |-> "AddDocuments", docs |-> docs, opts |-> opts,
                                 ans |-> ans, resp |-> resp]
                     /\ events' = out.ev
                     /\ result' = ResultOf(out)
                     /\ UNCHANGED s

\* docs, err := store.SimilaritySearch(ctx, query, n, options...)
DoSimilaritySearch ==
    /\ call = Idle
    /\ UNCHANGED pkg
    /\ s.scheme = "nested"
    /\ \E e \in PerCallEmbedders, th \in Thresholds, filter \in Filters :
         LET opts == Options(e, filter, th)
         IN  \E ans \in QueryAnswers(getEmbedder(s, opts)) :
               \E resp \in IF Sends(SimilaritySearch(s, "japan", 1, opts, ans,
                                                     Response(TRUE, 0, TRUE, "", FALSE, <<>>, "")).ev)
                           THEN QueryResponses(s) ELSE {NoResponse} :
                 LET out == SimilaritySearch(s, "japan", 1, opts, ans, resp)
                 IN  /\ call' = [op |-> "SimilaritySearch", query |-> "japan",
                                 numDocuments |-> 1, opts |-> opts, ans |-> ans, resp |-> resp]
                     /\ events' = out.ev
                     /\ result' = ResultOf(out)
                     /\ UNCHANGED s

DoSimilaritySearchFlat ==
    /\ call = Idle
    /\ UNCHANGED pkg
    /\ s.scheme = "flat"
    /\ \E e \in PerCallEmbedders, th \in Thresholds, filter \in Filters :
         LET opts == Options(e, filter, th)
         IN  \E ans \in QueryAnswers(s.embedder) :
               \E resp \in IF Sends(SimilaritySearchFlat(s, "japan", 1, opts, ans,
                                                         Response(TRUE, 0, TRUE, "", FALSE, <<>>, "")).ev)
                           THEN QueryResponses(s) ELSE {NoResponse} :
                 LET out == SimilaritySearchFlat(s, "japan", 1, opts, ans, resp)
                 IN  /\ call' = [op |-> "SimilaritySearch", query |-> "japan",
                                 numDocuments |-> 1, opts |-> opts, ans |-> ans, resp |-> resp]
                     /\ events' = out.ev
                     /\ result' = ResultOf(out)
                     /\ UNCHANGED s

\* err := store.Close()
DoClose ==
    /\ call = Idle
    /\ UNCHANGED pkg
    /\ LET out == Close(s)
       IN  /\ call' = [op |-> "Close"]
           /\ events' = out.ev
           /\ result' = ResultOf(out)
           /\ UNCHANGED s

\* The functions of the REST client a caller inside the package uses directly.
DoScrollPoints ==
    /\ call = Idle
    /\ UNCHANGED pkg
    /\ s.scheme = "nested"
    /\ s.embedder # "nil"
    /\ \E offset \in {"", "id-9"}, resp \in ScrollResponses(s) :
         LET req == [Offset |-> offset, Limit |-> 10, Filter |-> "nil",
                     WithPayload |-> TRUE, WithVector |-> FALSE]
             out == restScrollPoints(s, s.collectionName, req, resp)
         IN  /\ call' = [op |-> "restScrollPoints", req |-> req, resp |-> resp]
             /\ events' = out.ev
             /\ result' = ResultOf(out)
             /\ UNCHANGED s

DoDeletePoints ==
    /\ call = Idle
    /\ UNCHANGED pkg
    /\ s.scheme = "nested"
    /\ s.embedder # "nil"
    /\ \E filter \in Filters, resp \in PlainResponses :
         LET out == restDeletePoints(s, s.collectionName, filter, resp)
         IN  /\ call' = [op |-> "restDeletePoints", filter |-> filter, resp |-> resp]
             /\ events' = out.ev
             /\ result' = ResultOf(out)
             /\ UNCHANGED s

\* filter := store.NewMustEqualFilter(filters...)
DoNewMustEqualFilter ==
    /\ call = Idle
    /\ UNCHANGED pkg
    /\ s.scheme = "nested"
    /\ \E filters \in FilterLists :
         /\ call' = [op |-> "NewMustEqualFilter", filters |-> filters]
         /\ events' = <<>>
         /\ result' = [filter |-> NewMustEqualFilter(s, filters)] @@ NoResult
         /\ UNCHANGED s

\* filter := qdrant.NewMustEqualFilter(key, values...)
DoNewMustEqualFilterFlat ==
    /\ call = Idle
    /\ UNCHANGED pkg
    /\ s.scheme = "flat"
    /\ \E f \in FilterMatches :
         /\ call' = [op |-> "NewMustEqualFilter", filters |-> <<f>>]
         /\ events' = <<>>
         /\ result' = [filter |-> NewMustEqualFilterFlat(f.Key, f.Values)] @@ NoResult
         /\ UNCHANGED s

\* The call has returned (or the caller has recovered its panic) and the
\* caller is ready for its next call.
Return ==
    /\ call # Idle
    /\ UNCHANGED pkg
    /\ call' = Idle
    /\ events' = <<>>
    /\ result' = NoResult
    /\ UNCHANGED s

Next ==
    \/ DoNew
    \/ DoNewFlat
    \/ DoAddDocuments
    \/ DoAddDocumentsFlat
    \/ DoSimilaritySearch
    \/ DoSimilaritySearchFlat
    \/ DoClose
    \/ DoScrollPoints
    \/ DoDeletePoints
    \/ DoNewMustEqualFilter
    \/ DoNewMustEqualFilterFlat
    \/ Return

Spec == Init /\ [][Next]_vars

(***************************************************************************)
(* Concurrent use: several callers share the Store value s and the         *)
(* package's variables, and their calls interleave step by step.  Here     *)
(* call, events and result hold one entry per caller.  A method has a      *)
(* value receiver, so a call works on the copy of s made when it starts    *)
(* (call[c].st); the maps and slices in it are still shared.               *)
(***************************************************************************)
Callers == {"c1", "c2"}

\* Which map s.collectionConfig refers to: the package's default map unless
\* WithCollectionConfig gave the caller's own.
ConfigRef(opts) == IF opts.collectionConfig.given THEN "own" ELSE "default"

\* The entries of the map s.collectionConfig refers to, as they are now.
ConfigOf(p, st, ref) ==
    IF ref = "default" THEN p.defaultCollectionConfig ELSE st.collectionConfig

\* The first lines of restNewCollection with the name written into
\* s.collectionConfig itself, and that map sent as the body.
CopyConfigInPlace(p, st, ref, collection) ==
    [pkg |-> IF ref = "default"
             THEN [p EXCEPT !.defaultCollectionConfig = Put(@, "name", collection)]
             ELSE p,
     body |-> Put(ConfigOf(p, st, ref), "name", collection),
     bodyRef |-> ref]

\* The first lines of restNewCollection: the entries of s.collectionConfig
\* are copied into a new map, and the name is put in the copy, which is the
\* body of the request.  [pkg, body, bodyRef]
CopyConfig(p, st, ref, collection) ==
    [pkg |-> p,
     body |-> Put(ConfigOf(p, st, ref), "name", collection),
     bodyRef |-> "local"]

\* The inputs of the concurrent calls.
NoEnvironment == (_qdrantKeyEnvVarName :> "") @@ (_qdrantURLEnvVarName :> "")

ConcurrentNewOptions ==
    LET valid == {o \in NewOptions : /\ o.embedder = Given("E1")
                                     /\ o.apiKey = Given("key")
                                     /\ o.baseURL = Given("http://qdrant")
                                     /\ o.useCloud = Unset(FALSE)
                                     /\ o.collectionName = Given("cities")}
    IN  valid \cup {[o EXCEPT !.collectionName = Given("towns")] : o \in valid}

\* The stores the callers may share: built by New with the default keys and
\* the default collection configuration.
SharedStores ==
    {applyClientOptions([o EXCEPT !.embedder = Given(e)], NoEnvironment).store :
       o \in {x \in ConcurrentNewOptions : ~x.collectionConfig.given},
       e \in {"NilEmbedder", "E1"}}

ConcurrentResponses ==
    {Response(FALSE, StatusOK, TRUE, "ok", TRUE, <<>>, ""),
     Response(FALSE, 500, TRUE, "internal error", FALSE, <<>>, "")}

ConcurrentDocLists == {<<DocOf("Tokyo")>>, <<DocOf("Lima"), DocOf("London")>>}

ConcurrentQueryResponses(st) ==
    {Response(TRUE, 0, TRUE, "", FALSE, <<>>, ""),
     Response(FALSE, StatusOK, TRUE, "{result}", TRUE,
              <<Echo(st, DocOf("Lima"), F(80)), Echo(st, DocOf("London"), F(90))>>, "")}

InitConcurrent ==
    /\ s \in SharedStores
    /\ pkg = InitialPackage
    /\ call = [c \in Callers |-> Idle]
    /\ events = [c \in Callers |-> <<>>]
    /\ result = [c \in Callers |-> NoResult]

\* New starts: applyClientOptions builds the caller's Store (the options
\* and the environment are valid ones).
CallNew(c) ==
    /\ call[c] = Idle
    /\ \E opts \in ConcurrentNewOptions, r \in ConcurrentResponses :
         LET st == applyClientOptions(opts, NoEnvironment).store
         IN  call' = [call EXCEPT ![c] =
                        [op |-> "New", pc |-> "collection", opts |-> opts,
                         env |-> NoEnvironment,
                         resps |-> [i \in 1..(1 + Len(st.indexKeys)) |-> r],
                         st |-> st, configRef |-> ConfigRef(opts),
                         body |-> {}, bodyRef |-> "local", k |-> 1]]
    /\ UNCHANGED <<s, pkg, events, result>>

\* restNewCollection builds the body of its request.
NewConfig(c) ==
    /\ call[c].op = "New"
    /\ call[c].pc = "collection"
    /\ LET r == CopyConfig(pkg, call[c].st, call[c].configRef, call[c].st.collectionName)
       IN  /\ pkg' = r.pkg
           /\ call' = [call EXCEPT ![c].pc = "create", ![c].body = r.body,
                                   ![c].bodyRef = r.bodyRef]
    /\ UNCHANGED <<s, events, result>>

\* restNewCollection sends it: json.Marshal reads the map the body is.
NewCreate(c) ==
    /\ call[c].op = "New"
    /\ call[c].pc = "create"
    /\ LET st == call[c].st
           body == IF call[c].bodyRef = "local" THEN call[c].body
                   ELSE ConfigOf(pkg, st, call[c].bodyRef)
           out == PlainExchange("creating collection", "PUT",
                                getEndpoint(st.baseURL, st.collectionName, ""),
                                st.apiKey, body, call[c].resps[1])
       IN  /\ events' = [events EXCEPT ![c] = out.ev]
           /\ call' = [call EXCEPT ![c].pc = "index"]
    /\ UNCHANGED <<s, pkg, result>>

\* One round of the loop of New over the index keys.
NewIndex(c) ==
    /\ call[c].op = "New"
    /\ call[c].pc = "index"
    /\ call[c].k <= Len(call[c].st.indexKeys)
    /\ LET st == call[c].st
           out == restIndexMetadataKey(st, st.collectionName, st.indexKeys[call[c].k],
                                       call[c].resps[call[c].k + 1])
       IN  /\ events' = [events EXCEPT ![c] = @ \o out.ev]
           /\ call' = [call EXCEPT ![c].k = @ + 1]
    /\ UNCHANGED <<s, pkg, result>>

\* New returns its Store and nil.
NewReturn(c) ==
    /\ call[c].op = "New"
    /\ call[c].pc = "index"
    /\ call[c].k > Len(call[c].st.indexKeys)
    /\ call' = [call EXCEPT ![c].pc = "done"]
    /\ result' = [result EXCEPT ![c] = [NoResult EXCEPT !.err = NoError]]
    /\ UNCHANGED <<s, pkg, events>>

\* s.AddDocuments starts: the receiver is copied.
CallAddDocuments(c) ==
    /\ call[c] = Idle
    /\ \E docs \in ConcurrentDocLists, e \in {"nil", "E2"} :
         LET opts == Options(e, "nil", F(0))
         IN  \E ans \in {[err |-> TRUE, n |-> 0], [err |-> FALSE, n |-> Len(docs)]},
                resp \in ConcurrentResponses :
               call' = [call EXCEPT ![c] =
                          [op |-> "AddDocuments", pc |-> "embed", st |-> s, docs |-> docs,
                           opts |-> opts, ans |-> ans, resp |-> resp]]
    /\ UNCHANGED <<s, pkg, events, result>>

\* s.SimilaritySearch starts: the receiver is copied.
CallSimilaritySearch(c) ==
    /\ call[c] = Idle
    /\ \E th \in {F(0), F(80)}, resp \in ConcurrentQueryResponses(s) :
         call' = [call EXCEPT ![c] =
                    [op |-> "SimilaritySearch", pc |-> "embed", st |-> s, query |-> "japan",
                     numDocuments |-> 1, opts |-> Options("nil", "nil", th),
                     ans |-> [err |-> FALSE, n |-> 1], resp |-> resp]]
    /\ UNCHANGED <<s, pkg, events, result>>

\* What the call of caller c does from its copy of the receiver.
Run(c) ==
    IF call[c].op = "AddDocuments"
    THEN AddDocuments(call[c].st, call[c].docs, call[c].opts, call[c].ans, call[c].resp)
    ELSE SimilaritySearch(call[c].st, call[c].query, call[c].numDocuments, call[c].opts,
                          call[c].ans, call[c].resp)

\* The embedding call of AddDocuments or SimilaritySearch.
Embed(c) ==
    /\ call[c].op \in {"AddDocuments", "SimilaritySearch"}
    /\ call[c].pc = "embed"
    /\ events' = [events EXCEPT ![c] = SelectSeq(Run(c).ev, IsEmbed)]
    /\ call' = [call EXCEPT ![c].pc = "exchange"]
    /\ UNCHANGED <<s, pkg, result>>

\* The rest of the call: the request, if one is sent, and the return.
Exchange(c) ==
    /\ call[c].op \in {"AddDocuments", "SimilaritySearch"}
    /\ call[c].pc = "exchange"
    /\ events' = [events EXCEPT ![c] = Run(c).ev]
    /\ result' = [result EXCEPT ![c] = ResultOf(Run(c))]
    /\ call' = [call EXCEPT ![c].pc = "done"]
    /\ UNCHANGED <<s, pkg>>

\* The caller has its result and is ready for its next call.
ReturnConcurrent(c) ==
    /\ call[c] # Idle
    /\ call[c].pc = "done"
    /\ call' = [call EXCEPT ![c] = Idle]
    /\ events' = [events EXCEPT ![c] = <<>>]
    /\ result' = [result EXCEPT ![c] = NoResult]
    /\ UNCHANGED <<s, pkg>>

NextConcurrent ==
    \E c \in Callers :
      \/ CallNew(c)
      \/ NewConfig(c)
      \/ NewCreate(c)
      \/ NewIndex(c)
      \/ NewReturn(c)
      \/ CallAddDocuments(c)
      \/ CallSimilaritySearch(c)
      \/ Embed(c)
      \/ Exchange(c)
      \/ ReturnConcurrent(c)

SpecConcurrent == InitConcurrent /\ [][NextConcurrent]_vars

(***************************************************************************)
(* The claims.                                                             *)
(***************************************************************************)
\* The call is a SimilaritySearch whose request the index answered with
\* status 200 and a body that decodes; RawResult is its raw result list.
SearchAnswered ==
    /\ call.op = "SimilaritySearch"
    /\ Sends(events)
    /\ ~call.resp.neterr
    /\ call.resp.status = StatusOK
    /\ call.resp.decodes
RawResult == call.resp.result

\* The raw result list holds only points this adapter wrote, unchanged.
OnlyWrittenPoints ==
    \A i \in 1..Len(RawResult) :
      \E d \in Docs : Writes(s, d) /\ RawResult[i] = Echo(s, d, RawResult[i].Score)

\* C1: round trip.  When a store built by New (current generation) queries
\* without a threshold and the index returns only points this adapter wrote,
\* unchanged, decoding does not panic or fail, and the i-th document has the
\* content and the metadata of the document the i-th point was written for.
C1_RoundTrip ==
    ( /\ SearchAnswered
      /\ s.scheme = "nested"
      /\ s.embedder # "nil"
      /\ FEq(call.opts.ScoreThreshold, F(0))
      /\ Len(RawResult) > 0
      /\ OnlyWrittenPoints )
    => /\ result.panic = ""
       /\ result.err = NoError
       /\ Len(result.docs) = Len(RawResult)
       /\ \A i \in 1..Len(RawResult) :
            \E d \in Docs :
              /\ Writes(s, d)
              /\ RawResult[i] = Echo(s, d, RawResult[i].Score)
              /\ result.docs[i].PageContent = d.PageContent
              /\ result.docs[i].Metadata = d.Metadata

\* The embedder the claims call "in effect": the per-call one if given.
InEffect == IF call.opts.Embedder # "nil" THEN call.opts.Embedder ELSE s.embedder

EmbedCalls == SelectSeq(events, IsEmbed)
Requests == SelectSeq(events, IsRequest)

\* C2: AddDocuments (current generation) with N documents calls the embedder
\* in effect exactly once, with the N contents in order, and fails with
\* ErrEmbedderWrongNumberVectors whenever that embedder returns a number of
\* vectors other than N.
C2_EmbedderCount ==
    (call.op = "AddDocuments" /\ s.scheme = "nested" /\ InEffect # "nil")
    => /\ Len(EmbedCalls) = 1
       /\ EmbedCalls[1].who = InEffect
       /\ EmbedCalls[1].texts = [i \in 1..Len(call.docs) |-> call.docs[i].PageContent]
       /\ (InEffect \in ExternalEmbedders /\ ~call.ans.err /\ call.ans.n # Len(call.docs))
            => /\ result.panic = ""
               /\ result.err = Sentinel("ErrEmbedderWrongNumberVectors")

\* Every point of the raw result list decodes: a string under the content
\* key and, in the current generation, a mapping under the metadata key.
Decodable(sp) ==
    /\ \E p \in sp.Payload : p[1] = TextKeyOf(s) /\ p[2].t = "string"
    /\ s.scheme = "nested" => \E p \in sp.Payload : p[1] = s.metadataKey /\ p[2].t = "object"
FullyDecodable == \A i \in 1..Len(RawResult) : Decodable(RawResult[i])

\* The raw results the claim says are returned, as <<content, score>>.
RECURSIVE ExpectedKept(_, _)
ExpectedKept(points, t) ==
    IF points = <<>> THEN <<>>
    ELSE LET sp == Head(points)
             content == (CHOOSE p \in sp.Payload : p[1] = TextKeyOf(s))[2].v
         IN  (IF t.c = 0 \/ sp.Score.c >= t.c THEN <<<<content, sp.Score>>>> ELSE <<>>)
             \o ExpectedKept(Tail(points), t)

\* C3: a similarity query answered with a non-empty, fully decodable raw
\* result list succeeds and returns exactly the raw results r with threshold = 0
\* or r.score >= threshold, in the index's order.
C3_ThresholdFilter ==
    (SearchAnswered /\ Len(RawResult) > 0 /\ FullyDecodable)
    => /\ result.panic = ""
       /\ result.err = NoError
       /\ [i \in 1..Len(result.docs) |-> <<result.docs[i].PageContent, result.docs[i].Score>>]
            = ExpectedKept(RawResult, call.opts.ScoreThreshold)

\* C3's case: threshold 0.8, a point at 0.8 kept and a point below dropped.
C3_Witness ==
    /\ SearchAnswered /\ FullyDecodable
    /\ call.opts.ScoreThreshold = F(80)
    /\ Len(RawResult) = 2
    /\ RawResult[1].Score = F(50)
    /\ RawResult[2].Score = F(80)
    /\ Len(result.docs) = 1
    /\ result.docs[1].Score = F(80)

\* A non-zero threshold that no point of the raw result list reaches.
NoneReaches ==
    /\ ~call.opts.ScoreThreshold.nan
    /\ call.opts.ScoreThreshold.c # 0
    /\ \A i \in 1..Len(RawResult) : RawResult[i].Score.c < call.opts.ScoreThreshold.c

\* ErrEmptyResponse is returned exactly when the index answered with status
\* 200 and a raw result list of length zero.
EmptyResponseExactly ==
    call.op = "SimilaritySearch"
    => (result.err = Sentinel("ErrEmptyResponse") <=> (SearchAnswered /\ Len(RawResult) = 0))

\* C4 as stated: ErrEmptyResponse exactly on a 200 with an empty raw result
\* list, and an empty sequence with no error whenever the list is non-empty and
\* no point reaches the non-zero threshold.
C4_EmptyResponse_Original ==
    /\ EmptyResponseExactly
    /\ (SearchAnswered /\ Len(RawResult) > 0 /\ NoneReaches)
         => (result.panic = "" /\ result.err = NoError /\ result.docs = <<>>)

\* C4 as amended: the second half holds when every raw point decodes.
C4_EmptyResponse ==
    /\ EmptyResponseExactly
    /\ (SearchAnswered /\ Len(RawResult) > 0 /\ NoneReaches /\ FullyDecodable)
         => (result.panic = "" /\ result.err = NoError /\ result.docs = <<>>)

\* C4's case: a non-empty decodable list below the threshold, nothing returned.
C4_Witness ==
    /\ SearchAnswered /\ Len(RawResult) > 0 /\ NoneReaches /\ FullyDecodable
    /\ result.err = NoError
    /\ result.docs = <<>>

\* The options and environment of a call of New name no embedder, or no base
\* URL, or no collection name, or cloud mode and no API key.
BadConfiguration ==
    \/ call.opts.embedder.v = "nil"
    \/ call.opts.baseURL.v = "" /\ call.env[_qdrantURLEnvVarName] = ""
    \/ call.opts.collectionName.v = ""
    \/ call.opts.useCloud.v /\ call.opts.apiKey.v = "" /\ call.env[_qdrantKeyEnvVarName] = ""

\* C5: New with such a configuration fails with ErrInvalidOptions, returns the
\* zero Store and sends no request.
C5_ConfigurationErrors ==
    (call.op = "New" /\ BadConfiguration)
    => /\ result.err.err = "ErrInvalidOptions"
       /\ events = <<>>
       /\ s = ZeroStore(s.scheme)

\* C5's case: everything is given but the collection name.
C5_Witness ==
    /\ call.op = "New"
    /\ call.opts.embedder.v # "nil"
    /\ call.opts.baseURL.v # ""
    /\ ~call.opts.useCloud.v
    /\ call.opts.collectionName.v = ""
    /\ result.err = InvalidOptions("missing collection name")
    /\ events = <<>>

\* C6: SimilaritySearch (on a store built by New) accepts the threshold t iff
\* 0 <= t <= 1 (t is a float32, in hundredths here); for any other
\* t it returns ErrInvalidScoreThreshold and no documents, before the embedder
\* is called and before any request is sent.
C6_ScoreThresholdRange ==
    (call.op = "SimilaritySearch" /\ s # ZeroStore(s.scheme))
    => LET t == call.opts.ScoreThreshold
           inRange == ~t.nan /\ 0 <= t.c /\ t.c <= 100
       IN  /\ inRange => result.err # Sentinel("ErrInvalidScoreThreshold")
           /\ ~inRange => /\ result.panic = ""
                          /\ result.err = Sentinel("ErrInvalidScoreThreshold")
                          /\ result.docs = <<>>
                          /\ events = <<>>

\* The threshold of the call is a number of [0, 1].
ThresholdInRange ==
    /\ ~call.opts.ScoreThreshold.nan
    /\ 0 <= call.opts.ScoreThreshold.c
    /\ call.opts.ScoreThreshold.c <= 100

\* C7: AddDocuments and SimilaritySearch (current generation, the threshold
\* valid) call the per-call embedder when one is given and the store's
\* otherwise, and with neither set fail with ErrEmbedderIsNil and call none.
C7_EmbedderSelection ==
    ( /\ call.op \in {"AddDocuments", "SimilaritySearch"}
      /\ s.scheme = "nested"
      /\ call.op = "SimilaritySearch" => ThresholdInRange )
    => /\ InEffect # "nil" => (Len(EmbedCalls) = 1 /\ EmbedCalls[1].who = InEffect)
       /\ InEffect = "nil" => /\ result.panic = ""
                              /\ result.err = Sentinel("ErrEmbedderIsNil")
                              /\ EmbedCalls = <<>>

\* The embedder in effect answered AddDocuments with one vector per document.
EmbeddedAll ==
    /\ call.op = "AddDocuments"
    /\ InEffect # "nil"
    /\ InEffect \in ExternalEmbedders => (~call.ans.err /\ call.ans.n = Len(call.docs))

\* C8: in an upsert (current generation) a document whose metadata has the
\* field "__point_id" is written with that value as its point ID, whatever the
\* value is, and every other document gets an ID no other point of the batch has.
C8_PointIDs ==
    (EmbeddedAll /\ s.scheme = "nested" /\ Len(call.docs) > 0)
    => /\ result.panic = ""
       /\ Len(Requests) = 1
       /\ Len(Requests[1].body) = Len(call.docs)
       /\ \A i \in 1..Len(call.docs) :
            LET md == call.docs[i].Metadata.m
                id == Requests[1].body[i].ID
            IN  IF HasKey(md, "__point_id")
                THEN id = Get(md, "__point_id").v
                ELSE \A j \in 1..Len(call.docs) : j # i => Requests[1].body[j].ID # id

\* The name of the operation that sends the i-th request of the call.
ExpectedTask(i) ==
    CASE call.op = "New" -> IF i = 1 THEN "creating collection" ELSE "indexing metadata key"
      [] call.op = "AddDocuments" -> "upserting vectors"
      [] call.op = "SimilaritySearch" -> "querying index"
      [] call.op = "restScrollPoints" -> "scrolling points"
      [] call.op = "restDeletePoints" -> "deleting points"

\* A request answered with 200 does not end in an APIError, and ends in no
\* error at all when the operation has nothing to decode.
OKIsSuccess(i) ==
    Requests[i].resp.status = StatusOK
    => /\ Requests[i].ret.err # "APIError"
       /\ call.op \in {"New", "AddDocuments", "restDeletePoints"} => Requests[i].ret = NoError

\* C9 as stated: every answered request of status 200 is a success, and of any
\* other status returns the APIError of the operation's name and the body's text.
C9_APIError_Original ==
    \A i \in 1..Len(Requests) :
      ~Requests[i].resp.neterr
      => /\ OKIsSuccess(i)
         /\ Requests[i].resp.status # StatusOK
              => Requests[i].ret = APIError(ExpectedTask(i), Requests[i].resp.text)

\* C9 as amended: that APIError when the body can be read to its end; when
\* reading it fails, the APIError of task "reading body of error message".
C9_APIError ==
    \A i \in 1..Len(Requests) :
      ~Requests[i].resp.neterr
      => /\ OKIsSuccess(i)
         /\ (Requests[i].resp.status # StatusOK /\ Requests[i].resp.readable)
              => Requests[i].ret = APIError(ExpectedTask(i), Requests[i].resp.text)
         /\ (Requests[i].resp.status # StatusOK /\ ~Requests[i].resp.readable)
              => /\ Requests[i].ret.err = "APIError"
                 /\ Requests[i].ret.task = "reading body of error message"

\* C9's case: an upsert answered 500 returns the APIError of "upserting vectors".
C9_Witness ==
    /\ call.op = "AddDocuments"
    /\ Len(Requests) = 1
    /\ Requests[1].resp.status = 500
    /\ Requests[1].resp.readable
    /\ result.err = APIError("upserting vectors", "internal error")

\* No request is followed by an embedding call.
EmbedThenRequest ==
    \A i \in 1..Len(events) : \A j \in 1..Len(events) :
      (i < j /\ IsRequest(events[i])) => ~IsEmbed(events[j])

\* C10 as stated: every public operation makes at most one embedding call
\* followed by at most one request.
C10_OneCallOneExchange_Original ==
    call.op \in {"New", "AddDocuments", "SimilaritySearch", "Close"}
    => /\ Len(EmbedCalls) <= 1
       /\ Len(Requests) <= 1
       /\ EmbedThenRequest

\* C10 as amended: so do AddDocuments and SimilaritySearch; Close makes no
\* call; New makes no embedding call and, when the configuration is valid,
\* one request for the collection and one per index key (none otherwise).
C10_OneCallOneExchange ==
    /\ call.op \in {"AddDocuments", "SimilaritySearch"}
         => (Len(EmbedCalls) <= 1 /\ Len(Requests) <= 1 /\ EmbedThenRequest)
    /\ call.op = "Close" => events = <<>>
    /\ call.op = "New"
         => /\ EmbedCalls = <<>>
            /\ Len(Requests) = IF result.err # NoError THEN 0
                               ELSE IF s.scheme = "nested" THEN 1 + Len(s.indexKeys)
                               ELSE 0

\* C10's case: New with two index keys sends three requests.
C10_Witness ==
    /\ call.op = "New"
    /\ Len(s.indexKeys) = 2
    /\ Len(Requests) = 3
    /\ Requests[1].who = "creating collection"
    /\ Requests[3].who = "indexing metadata key"

\* C11: the body of the create-collection request of New (current generation)
\* carries the collection name, every entry of the caller's configuration, and
\* every entry of the default configuration whose key the caller's
\* configuration does not override.
C11_ConfigMerge ==
    (call.op = "New" /\ s.scheme = "nested" /\ Requests # <<>>)
    => LET body == Requests[1].body
           given == IF call.opts.collectionConfig.given
                    THEN call.opts.collectionConfig.v ELSE {}
       IN  /\ <<"name", s.collectionName>> \in body
           /\ given \subseteq body
           /\ \A d \in _defaultCollectionConfig : HasKey(given, d[1]) \/ d \in body

\* The scroll request was answered with status 200 and a body that decodes.
ScrollAnswered ==
    /\ call.op = "restScrollPoints"
    /\ ~call.resp.neterr
    /\ call.resp.status = StatusOK
    /\ call.resp.decodes

\* C12: a scroll answered with a well-formed 200 response, with a result page
\* whose points all decode or with no result page at all, does not panic and
\* returns the page's documents in order and the page's cursor, "" when the
\* response has no next page.
C12_Scroll ==
    (ScrollAnswered /\ (call.resp.hasResult => FullyDecodable))
    => /\ result.panic = ""
       /\ result.err = NoError
       /\ call.resp.hasResult
            => /\ result.next = call.resp.next
               /\ Len(result.docs) = Len(RawResult)
               /\ \A i \in 1..Len(RawResult) :
                    \E p \in RawResult[i].Payload :
                      p[1] = s.contentKey /\ p[2].v = result.docs[i].PageContent
       /\ ~call.resp.hasResult => (result.docs = <<>> /\ result.next = "")

\* C14: Store.NewMustEqualFilter (current generation) returns a filter whose
\* "must" list has one clause per input clause, in input order, with key
\* "<metadataKey>.<clause key>" and match.any the clause's values; no input
\* clause gives an empty "must" list.
C14_MustEqualFilter ==
    (call.op = "NewMustEqualFilter" /\ s.scheme = "nested")
    => LET must == result.filter.must
       IN  /\ Len(must) = Len(call.filters)
           /\ \A i \in 1..Len(call.filters) :
                /\ must[i].key = s.metadataKey \o "." \o call.filters[i].Key
                /\ must[i].match.any = call.filters[i].Values

\* C14's case: two clauses on a store whose metadata key is "meta".
C14_Witness ==
    /\ call.op = "NewMustEqualFilter"
    /\ s.metadataKey = "meta"
    /\ Len(call.filters) = 2
    /\ result.filter.must[1].key = "meta.country"
    /\ result.filter.must[2].key = "meta.population"
    /\ result.filter.must[2].match.any = <<"38", "11">>

\* Some point of the raw result list has no string under the content key.
MissingText ==
    \E i \in 1..Len(RawResult) :
      ~\E p \in RawResult[i].Payload : p[1] = TextKeyOf(s) /\ p[2].t = "string"

\* A query or a scroll of a store built by New whose response is decoded
\* point by point.
DecodesPoints ==
    /\ s.embedder # "nil"
    /\ \/ SearchAnswered /\ Len(RawResult) > 0
       \/ ScrollAnswered /\ call.resp.hasResult

\* C15: decoding a query or scroll response fails with ErrMissingTextKey, and
\* returns no document, if and only if some point of the raw result list lacks
\* a string under the content key, whatever the points' scores.
C15_MissingTextKey ==
    DecodesPoints
    => /\ result.err = Sentinel("ErrMissingTextKey") <=> MissingText
       /\ MissingText => (result.panic = "" /\ result.docs = <<>>)

\* The embedding call of AddDocuments failed, or returned a number of
\* vectors other than the number of documents.
EmbeddingUnusable ==
    /\ InEffect \in ExternalEmbedders
    /\ call.ans.err \/ call.ans.n # Len(call.docs)

\* C16: AddDocuments on a store built by New (current generation), when it
\* succeeds, has sent one upsert request whose i-th point carries the i-th
\* document's content and metadata and the i-th vector of the embedder, one
\* point per document; when the embedding call fails or returns a wrong number
\* of vectors, no request is sent.
C16_UpsertContents ==
    (call.op = "AddDocuments" /\ s.scheme = "nested" /\ s.embedder # "nil")
    => /\ (result.panic = "" /\ result.err = NoError)
            => /\ Len(Requests) = 1
               /\ Requests[1].who = "upserting vectors"
               /\ Len(Requests[1].body) = Len(call.docs)
               /\ \A i \in 1..Len(call.docs) :
                    LET pt == Requests[1].body[i]
                    IN  /\ <<s.contentKey, StrAny(call.docs[i].PageContent)>> \in pt.Payload
                        /\ <<s.metadataKey, call.docs[i].Metadata>> \in pt.Payload
                        /\ pt.Vector = EmbedDocuments(InEffect, Texts(call.docs), call.ans).vectors[i]
       /\ EmbeddingUnusable => Requests = <<>>

\* C17: New (current generation) with a valid configuration sends the
\* create-collection request and then one index request per index key, in the
\* keys' order, each whatever the earlier ones returned, and returns the
\* configured store and no error whatever they returned.
C17_Provisioning ==
    (call.op = "New" /\ s.scheme = "nested" /\ ~BadConfiguration)
    => /\ result.err = NoError
       /\ result.panic = ""
       /\ s = applyClientOptions(call.opts, call.env).store
       /\ Len(Requests) = 1 + Len(s.indexKeys)
       /\ Requests[1].who = "creating collection"
       /\ Requests[1].endpoint = getEndpoint(s.baseURL, s.collectionName, "")
       /\ \A i \in 1..Len(s.indexKeys) :
            /\ Requests[i + 1].who = "indexing metadata key"
            /\ Requests[i + 1].body.field_name = s.indexKeys[i]
       /\ \A i \in 1..Len(Requests) : Requests[i].resp = call.resps[i]

\* C17's case: the collection request fails in the transport, the first index
\* request is answered 500, and the second index request is still sent.
C17_Witness ==
    /\ call.op = "New"
    /\ Len(s.indexKeys) = 2
    /\ Len(Requests) = 3
    /\ Requests[1].resp.neterr
    /\ Requests[2].resp.status = 500
    /\ Requests[2].ret.err = "APIError"
    /\ Requests[3].body.field_name = s.indexKeys[2]
    /\ result.err = NoError

\* What the finished call of caller c sends and returns when it runs alone on
\* the store the callers started with: [ev, result, store].
Alone(c) ==
    IF call[c].op = "New"
    THEN LET n == New(call[c].opts, call[c].env, call[c].resps)
         IN  [ev |-> n.ev, result |-> [NoResult EXCEPT !.err = n.err], store |-> n.store]
    ELSE LET out == IF call[c].op = "AddDocuments"
                    THEN AddDocuments(s, call[c].docs, call[c].opts, call[c].ans, call[c].resp)
                    ELSE SimilaritySearch(s, call[c].query, call[c].numDocuments,
                                          call[c].opts, call[c].ans, call[c].resp)
         IN  [ev |-> out.ev, result |-> ResultOf(out), store |-> s]

\* C13 (under SpecConcurrent): whatever the interleaving of the callers' New,
\* AddDocuments and SimilaritySearch calls, the shared store and the package's
\* default collection configuration stay as they were, and every finished call
\* has sent the requests and returned the result it sends and returns alone.
C13_ConcurrentUse ==
    /\ pkg = InitialPackage
    /\ s \in SharedStores
    /\ \A c \in Callers :
         (call[c] # Idle /\ call[c].pc = "done")
         => /\ events[c] = Alone(c).ev
            /\ result[c] = Alone(c).result
            /\ call[c].op = "New" => call[c].st = Alone(c).store
            /\ call[c].op # "New" => call[c].st = s

\* C13's case: c1 has finished a New on the default configuration while c2,
\* in a New for another collection on the same default, has built its body
\* and not yet sent it.
C13_Witness ==
    /\ call["c1"] # Idle /\ call["c2"] # Idle
    /\ call["c1"].op = "New" /\ call["c1"].pc = "done"
    /\ call["c2"].op = "New" /\ call["c2"].pc = "create"
    /\ call["c1"].configRef = "default" /\ call["c2"].configRef = "default"
    /\ call["c1"].st.collectionName # call["c2"].st.collectionName
    /\ <<"name", call["c1"].st.collectionName>> \in events["c1"][1].body

====
